---- MODULE Spec2Model ----
(***************************************************************************)
(* Model of the one-to-one chat client: the conversation view             *)
(* (src/src/components/ChatWindow.tsx), the conversation list             *)
(* (src/src/components/ChatList.tsx), the session component               *)
(* (src/src/App.tsx) and the messages table with its constraints and      *)
(* row-level security (src/supabase/migrations/20250117122041_dry_gate.sql).*)
(* Every await of the client code is a suspension point: the request is   *)
(* issued by one action, served by the backend in another and its         *)
(* continuation runs in a third.                                          *)
(***************************************************************************)
EXTENDS Integers, Sequences, FiniteSets, TLC

\* ---------------------------------------------------------------- bounds
MaxStore == 2       \* rows the messages table may hold (Spec, SpecRead)
SmallStore == 1     \* rows the messages table may hold (SpecFeed, SpecImage, SpecCreate)
MaxSend == 1        \* optimistic sends the user may start
MaxDup == 1         \* notifications the feed may deliver twice
MaxUpload == 1      \* attachments the user may pick
MaxRefresh == 2     \* conversation-list refresh queries in flight
MaxAuthEvents == 3  \* sign-ins, token refreshes and sign-outs
MaxUserFetch == 2   \* roster queries in flight

\* ------------------------------------------------------------- constants
TmpBase == 100      \* client-generated identifiers are disjoint from server ones
KiB == 1024

\* The three profiles of the model: the session user, the selected
\* counterpart and a third user.
Me == "u1"
Peer == "u2"
Other == "u3"
Users == {Me, Peer, Other}

\* Optional values (SQL NULL / JS null): the empty tuple is NULL, a
\* one-element tuple carries the value.
Null == <<>>
Some(x) == <<x>>
IsNull(x) == x = <<>>

\* Text typed into the input, as sequences of characters.
Inputs == { <<>>, <<" ">>, <<" ", "a", " ">> }

VARIABLES
  store,       \* messages table: sequence of rows, store[i].id = i
  clock,       \* next timestamp handed out by now() / new Date()
  feed,        \* realtime events on their way to this client (FIFO)
  dups,        \* number of events the feed has duplicated
  messages,    \* ChatWindow state: the visible sequence
  newMessage,  \* ChatWindow state: the text input
  uploading,   \* ChatWindow state: the uploading flag
  sends,       \* handleSendMessage invocations: create requests and their stage
  fetch,       \* fetchMessages invocation: stage and data
  marks,       \* read-flag update requests in flight
  uploads,     \* handleImageUpload invocations and their stage
  delivered,   \* identifiers whose INSERT event reached the view's callback
  chats,       \* ChatList state: rows of the conversation list
  refreshes,   \* fetchChats invocations in flight
  last,        \* the step just taken: handler, its input and the notice it raised
  storeCap,    \* rows the messages table may hold in this specification
  authSession, \* the auth client's session: the signed-in user or NULL
  session,     \* App state: session
  currentUser, \* App state: the exposed profile
  pending,     \* App: requests in flight (getSession, fetchProfile, presence writes)
  profiles,    \* profiles table: status and last_seen of each profile
  tick,        \* next timestamp new Date() hands to the session component
  authEvents,  \* number of sign-ins, refreshes and sign-outs so far
  usernames,   \* profiles table: the username column
  users,       \* UserList state: the profiles fetchUsers returned
  searchTerm,  \* UserList state: the search input
  userFetch,   \* fetchUsers invocations in flight
  selectedUser, \* App state: the counterpart whose conversation is shown
  stale        \* fetchMessages invocations of a former counterpart in flight

chatVars == << store, clock, feed, dups, messages, newMessage, uploading, sends,
               fetch, marks, uploads, delivered, chats, refreshes >>

authVars == << authSession, session, currentUser, pending, profiles, tick,
               authEvents >>

rosterVars == << usernames, users, searchTerm, userFetch >>

viewVars == << selectedUser, stale >>

vars == << chatVars, authVars, last, storeCap, rosterVars, viewVars >>

\* ------------------------------------------------------------ the store
\* A row of the messages table (CREATE TABLE messages).
Row(id, s, r, c, img, t) ==
  [ id |-> id, sender_id |-> s, receiver_id |-> r, content |-> c,
    image_url |-> img, read |-> FALSE, created_at |-> t ]

\* A table without the check constraint.
NoConstraint(c, img) == TRUE

\* CONSTRAINT content_or_image CHECK (content IS NOT NULL OR image_url IS NOT NULL)
content_or_image(c, img) == ~IsNull(c) \/ ~IsNull(img)

\* Row-level security of the messages table: the policies the migration
\* creates.  A command on a row by an authenticated user passes iff some
\* policy for that command admits it; a command without policy admits
\* nothing.
MessagePolicies == { "INSERT", "SELECT" }

PolicyAdmits(cmd, uid, s, r) ==
  /\ cmd \in MessagePolicies
  /\ CASE cmd = "INSERT" -> uid = s
       [] cmd = "SELECT" -> uid = s \/ uid = r
       [] OTHER -> FALSE

\* INSERT by user uid: accepted iff policy and constraint pass.
InsertAccepted(uid, s, r, c, img) ==
  /\ PolicyAdmits("INSERT", uid, s, r)
  /\ content_or_image(c, img)

\* UPDATE messages SET read = true WHERE id IN ids, by user uid: only rows
\* the UPDATE policies admit are touched.
UpdateRead(st, uid, ids) ==
  [ i \in DOMAIN st |->
      IF st[i].id \in ids
         /\ PolicyAdmits("UPDATE", uid, st[i].sender_id, st[i].receiver_id)
      THEN [ st[i] EXCEPT !.read = TRUE ]
      ELSE st[i] ]

\* The rows an UPDATE by uid changes.
UpdatedIds(st, uid, ids) ==
  { i \in DOMAIN st : st[i].id \in ids /\ UpdateRead(st, uid, ids)[i] # st[i] }

\* ------------------------------------------------------------- sequences
RECURSIVE SeqOfSet(_)
SeqOfSet(S) ==
  IF S = {} THEN <<>>
  ELSE LET x == CHOOSE y \in S : TRUE IN <<x>> \o SeqOfSet(S \ {x})

\* .order('created_at', { ascending: true }): insertion sort on created_at,
\* ties by identifier.
RECURSIVE InsertAsc(_, _)
InsertAsc(row, sq) ==
  IF sq = <<>> THEN <<row>>
  ELSE IF row.created_at < Head(sq).created_at
          \/ (row.created_at = Head(sq).created_at /\ row.id < Head(sq).id)
       THEN <<row>> \o sq
       ELSE <<Head(sq)>> \o InsertAsc(row, Tail(sq))

RECURSIVE OrderAsc(_)
OrderAsc(sq) ==
  IF sq = <<>> THEN <<>> ELSE InsertAsc(Head(sq), OrderAsc(Tail(sq)))

\* String.prototype.trim on character sequences.
RECURSIVE TrimLeft(_)
TrimLeft(s) ==
  IF s # <<>> /\ Head(s) = " " THEN TrimLeft(Tail(s)) ELSE s

RECURSIVE TrimRight(_)
TrimRight(s) ==
  IF s # <<>> /\ s[Len(s)] = " " THEN TrimRight(SubSeq(s, 1, Len(s) - 1)) ELSE s

Trim(s) == TrimRight(TrimLeft(s))

\* A test that only looks for the session user.
InvolvesMe(m, peer) == m.sender_id = Me \/ m.receiver_id = Me

\* The (sender, receiver) test of the view: the pair in either direction.
PairOf(m, peer) ==
  \/ (m.sender_id = Me /\ m.receiver_id = peer)
  \/ (m.sender_id = peer /\ m.receiver_id = Me)

\* The test for the pair the view shows.
IsPair(m) == PairOf(m, selectedUser)

Ids(sq) == { sq[i].id : i \in DOMAIN sq }

\* The record kept in last: the client handler or continuation that ran (or
\* "backend" for a step of the backend, the network or another client), its
\* argument where one is recorded, and the alert() it raised ("none" when it
\* raised none).
Step(op, arg, alert) == [ op |-> op, arg |-> arg, alert |-> alert ]

\* Number of entries of the visible sequence carrying identifier id.
Count(sq, id) == Cardinality({ i \in DOMAIN sq : sq[i].id = id })

\* A realtime event: payload.new is the row as written.
Event(type, row) == [ type |-> type, row |-> row ]

\* The events table changes produce for this client: realtime delivers a
\* row only to subscribers the SELECT policy admits.
Publish(fd, type, row) ==
  IF PolicyAdmits("SELECT", Me, row.sender_id, row.receiver_id)
  THEN Append(fd, Event(type, row))
  ELSE fd

\* ------------------------------------------------------------------ Init
\* The view has just been mounted for (Me, Peer): its effect has called
\* fetchMessages() and subscribed; the list has called fetchChats().
InitChat ==
  /\ store = <<>>
  /\ clock = 1
  /\ feed = <<>>
  /\ dups = 0
  /\ messages = <<>>
  /\ newMessage = <<>>
  /\ uploading = FALSE
  /\ sends = {}
  /\ fetch = [ st |-> "issued", data |-> <<>> ]
  /\ marks = {}
  /\ uploads = {}
  /\ delivered = {}
  /\ chats = <<>>
  /\ refreshes = [ events |-> 0, issued |-> 1, served |-> {} ]
  /\ last = Step("mount", Null, "none")
  /\ selectedUser = Peer
  /\ stale = {}

\* The profiles table after sign-up: handle_new_user inserts each profile
\* with status 'offline'.
NewProfiles == [ u \in Users |-> [ status |-> "offline", last_seen |-> 0 ] ]

\* The conversation view is open: the session user is signed in, the
\* profile is resolved and the presence write has been served.
Opened ==
  /\ InitChat
  /\ authSession = Some(Me)
  /\ session = Some(Me)
  /\ currentUser = Some(Me)
  /\ pending = {}
  /\ profiles = [ NewProfiles EXCEPT ![Me].status = "online" ]
  /\ tick = 1
  /\ authEvents = 0

\* Usernames are character sequences of at least three characters
\* (CONSTRAINT username_length).
UserNames == { << "A", "b", "a" >>, << "a", "B", "b" >>, << "b", "a", "A" >> }

\* The roster is not on screen: nothing fetched, nothing typed.
RosterIdle ==
  /\ usernames = [ u \in Users |-> << "a", "B", "b" >> ]
  /\ users = <<>>
  /\ searchTerm = <<>>
  /\ userFetch = [ events |-> 0, issued |-> 0, served |-> {}, loaded |-> FALSE ]

Init == Opened /\ storeCap = MaxStore /\ RosterIdle

InitSmall == Opened /\ storeCap = SmallStore /\ RosterIdle

\* The record handleSendMessage inserts; a column it does not name is NULL.
TextRequest(messageContent) ==
  [ sender_id |-> Me, receiver_id |-> selectedUser, content |-> Some(messageContent),
    image_url |-> Null ]

\* An image message that also carries an (empty) body.
ImageRequestWithBody(publicUrl) ==
  [ sender_id |-> Me, receiver_id |-> selectedUser, content |-> Some(<<>>),
    image_url |-> Some(publicUrl) ]

\* The record handleImageUpload inserts; a column it does not name is NULL.
ImageRequest(publicUrl) ==
  [ sender_id |-> Me, receiver_id |-> selectedUser, content |-> Null,
    image_url |-> Some(publicUrl) ]

\* The row the backend makes of an insert request.
RowOf(req, id, t) ==
  Row(id, req.sender_id, req.receiver_id, req.content, req.image_url, t)

\* The insert policy and the constraint applied to a request of user uid.
RequestAccepted(uid, req) ==
  InsertAccepted(uid, req.sender_id, req.receiver_id, req.content, req.image_url)

\* --------------------------------------------------- the text input
\* onChange of the text input: setNewMessage(e.target.value).
TypeText(s) ==
  /\ s # newMessage
  /\ newMessage' = s
  /\ last' = Step("type", Null, "none")
  /\ UNCHANGED << store, clock, feed, dups, messages, uploading, sends, fetch,
                  marks, uploads, delivered, chats, refreshes >>
  /\ UNCHANGED << authVars, storeCap, rosterVars, viewVars >>

\* ------------------------------------------------- handleSendMessage
\* Up to the await: trim, clear the input, append the optimistic entry and
\* issue the create request.  An empty or blank input returns at once.
HandleSendMessage ==
  LET messageContent == Trim(newMessage)
      tmp == TmpBase + Cardinality(sends) + 1
      optimisticMessage == Row(tmp, Me, selectedUser, Some(messageContent), Null, clock)
  IN
  /\ last' = Step("submit", Null, "none")
  /\ IF messageContent = <<>>
     THEN UNCHANGED << newMessage, messages, sends, clock >>
     ELSE /\ Cardinality(sends) < MaxSend
          /\ newMessage' = <<>>
          /\ messages' = Append(messages, optimisticMessage)
          /\ clock' = clock + 1
          /\ sends' = sends \cup
               { [ tmp |-> tmp, content |-> messageContent, st |-> "issued",
                   req |-> TextRequest(messageContent), data |-> Null ] }
  /\ UNCHANGED << store, feed, dups, uploading, fetch, marks, uploads,
                  delivered, chats, refreshes >>
  /\ UNCHANGED << authVars, storeCap, rosterVars, viewVars >>

\* The backend executes the insert of a create request: policy and
\* constraint are checked, the row gets its identifier and created_at, and
\* the change is published.  .select().single() returns the row.
ServeCreate(r) ==
  LET row == RowOf(r.req, Len(store) + 1, clock) IN
  /\ r \in sends /\ r.st = "issued"
  /\ Len(store) < storeCap
  /\ IF RequestAccepted(Me, r.req)
     THEN /\ store' = Append(store, row)
          /\ clock' = clock + 1
          /\ feed' = Publish(feed, "INSERT", row)
          /\ refreshes' = [ refreshes EXCEPT !.events = @ + 1 ]
          /\ sends' = (sends \ {r}) \cup { [ r EXCEPT !.st = "ok", !.data = Some(row) ] }
     ELSE /\ sends' = (sends \ {r}) \cup { [ r EXCEPT !.st = "err" ] }
          /\ UNCHANGED << store, clock, feed, refreshes >>
  /\ last' = Step("backend", Null, "none")
  /\ UNCHANGED << dups, messages, newMessage, uploading, fetch, marks, uploads,
                  delivered, chats >>
  /\ UNCHANGED << authVars, storeCap, rosterVars, viewVars >>

\* The create request fails (network or backend failure): nothing is stored.
FailCreate(r) ==
  /\ r \in sends /\ r.st = "issued"
  /\ sends' = (sends \ {r}) \cup { [ r EXCEPT !.st = "err" ] }
  /\ last' = Step("backend", Null, "none")
  /\ UNCHANGED << store, clock, feed, dups, messages, newMessage, uploading,
                  fetch, marks, uploads, delivered, chats, refreshes >>
  /\ UNCHANGED << authVars, storeCap, rosterVars, viewVars >>

\* A confirmation that takes the pending entry to be the newest one.
ReplaceNewest(prev, tmp, data) ==
  [ i \in DOMAIN prev |-> IF i = Len(prev) THEN data ELSE prev[i] ]

\* prevMessages.map((msg) => msg.id === optimisticMessage.id ? data : msg)
ReplaceOptimistic(prev, tmp, data) ==
  [ i \in DOMAIN prev |-> IF prev[i].id = tmp THEN data ELSE prev[i] ]

\* A rollback that drops the newest entry instead of the pending one.
RemoveNewest(prev, tmp) ==
  IF prev = <<>> THEN prev ELSE SubSeq(prev, 1, Len(prev) - 1)

\* prevMessages.filter((msg) => msg.id !== optimisticMessage.id)
RemoveOptimistic(prev, tmp) ==
  SelectSeq(prev, LAMBDA msg : msg.id # tmp)

\* The continuation of handleSendMessage after the await.
CreateResponse(r) ==
  /\ r \in sends /\ r.st \in {"ok", "err"}
  /\ IF r.st = "err"
     THEN /\ messages' = RemoveOptimistic(messages, r.tmp)
          /\ newMessage' = r.content
          /\ sends' = (sends \ {r}) \cup { [ r EXCEPT !.st = "failed" ] }
          /\ last' = Step("createResponse", r.tmp,
                          "Failed to send message. Please try again.")
     ELSE /\ messages' = ReplaceOptimistic(messages, r.tmp, r.data[1])
          /\ sends' = (sends \ {r}) \cup { [ r EXCEPT !.st = "done" ] }
          /\ last' = Step("createResponse", r.tmp, "none")
          /\ UNCHANGED newMessage
  /\ UNCHANGED << store, clock, feed, dups, uploading, fetch, marks, uploads,
                  delivered, chats, refreshes >>
  /\ UNCHANGED << authVars, storeCap, rosterVars, viewVars >>

\* ---------------------------------------------------- other clients
\* What another client may try to insert for the session user: a text, an
\* image, both, or a record with neither.
PeerBodies == { Null, Some(<<"b">>) }
PeerImages == { Null, Some("img") }

\* Another user's client inserts a message addressed to the session user.
PeerInsert(s, c, img) ==
  LET row == Row(Len(store) + 1, s, Me, c, img, clock)
      ok == InsertAccepted(s, s, Me, c, img)
  IN
  /\ ok => Len(store) < storeCap
  /\ IF ok
     THEN /\ store' = Append(store, row)
          /\ clock' = clock + 1
          /\ feed' = Publish(feed, "INSERT", row)
          /\ refreshes' = [ refreshes EXCEPT !.events = @ + 1 ]
     ELSE UNCHANGED << store, clock, feed, refreshes >>
  /\ last' = IF ok THEN Step("backend", Null, "none")
                   ELSE Step("insertRejected", << c, img >>, "none")
  /\ UNCHANGED << dups, messages, newMessage, uploading, sends, fetch, marks,
                  uploads, delivered, chats >>
  /\ UNCHANGED << authVars, storeCap, rosterVars, viewVars >>

\* A role that row-level security does not bind (the table owner: the
\* migration ENABLEs but does not FORCE it) sets a read flag.
OwnerSetRead(id) ==
  /\ id \in DOMAIN store
  /\ ~store[id].read
  /\ store' = [ store EXCEPT ![id].read = TRUE ]
  /\ feed' = Publish(feed, "UPDATE", store'[id])
  /\ refreshes' = [ refreshes EXCEPT !.events = @ + 1 ]
  /\ last' = Step("backend", Null, "none")
  /\ UNCHANGED << clock, dups, messages, newMessage, uploading, sends, fetch,
                  marks, uploads, delivered, chats >>
  /\ UNCHANGED << authVars, storeCap, rosterVars, viewVars >>

\* ------------------------------------------- the view's subscription
\* The callback without its duplicate test.
AppendAlways(prevMessages, nm) == Append(prevMessages, nm)

\* The body of setMessages in the INSERT callback.
AppendUnlessPresent(prevMessages, nm) ==
  IF \E i \in DOMAIN prevMessages : prevMessages[i].id = nm.id
  THEN prevMessages
  ELSE Append(prevMessages, nm)

\* The channel's event filter: event: 'INSERT', table messages.
ViewSubscribed(ev) == ev.type = "INSERT"

\* The callback of the view's channel on a payload.
OnInsert(nm) ==
  IF IsPair(nm)
  THEN /\ messages' = AppendUnlessPresent(messages, nm)
       /\ marks' = IF nm.receiver_id = Me
                   THEN marks \cup { [ ids |-> {nm.id}, batch |-> FALSE ] }
                   ELSE marks
  ELSE UNCHANGED << messages, marks >>

\* The next event of the feed reaches the client; the view's callback runs
\* iff the event passes the channel's filter.
Deliver ==
  /\ feed # <<>>
  /\ LET ev == Head(feed) IN
       /\ feed' = Tail(feed)
       /\ IF ViewSubscribed(ev)
          THEN /\ OnInsert(ev.row)
               /\ delivered' = delivered \cup { ev.row.id }
          ELSE UNCHANGED << messages, marks, delivered >>
       /\ last' = Step("deliver",
                       << ev.row.id, ViewSubscribed(ev) /\ ev.row.id \in delivered >>,
                       "none")
  /\ UNCHANGED << store, clock, dups, newMessage, uploading, sends, fetch,
                  uploads, chats, refreshes >>
  /\ UNCHANGED << authVars, storeCap, rosterVars, viewVars >>

\* The feed delivers an event more than once (at-least-once delivery).
Duplicate ==
  /\ feed # <<>>
  /\ dups < MaxDup
  /\ dups' = dups + 1
  /\ feed' = << Head(feed) >> \o feed
  /\ last' = Step("backend", Null, "none")
  /\ UNCHANGED << store, clock, messages, newMessage, uploading, sends, fetch,
                  marks, uploads, delivered, chats, refreshes >>
  /\ UNCHANGED << authVars, storeCap, rosterVars, viewVars >>

\* ---------------------------------------------------- fetchMessages
\* The history query: rows of the pair in either direction that the SELECT
\* policy shows to the session user, ascending by created_at.
PairHistory(st) ==
  OrderAsc(SelectSeq(st, LAMBDA m :
             IsPair(m) /\ PolicyAdmits("SELECT", Me, m.sender_id, m.receiver_id)))

\* The backend answers the history query with the store as it is now.
FetchServe ==
  /\ fetch.st = "issued"
  /\ fetch' = [ st |-> "served", data |-> PairHistory(store) ]
  /\ last' = Step("backend", Null, "none")
  /\ UNCHANGED << store, clock, feed, dups, messages, newMessage, uploading,
                  sends, marks, uploads, delivered, chats, refreshes >>
  /\ UNCHANGED << authVars, storeCap, rosterVars, viewVars >>

\* The history query fails: the catch block logs and the view keeps its state.
FetchFail ==
  /\ fetch.st = "issued"
  /\ fetch' = [ st |-> "failed", data |-> <<>> ]
  /\ last' = Step("backend", Null, "none")
  /\ UNCHANGED << store, clock, feed, dups, messages, newMessage, uploading,
                  sends, marks, uploads, delivered, chats, refreshes >>
  /\ UNCHANGED << authVars, storeCap, rosterVars, viewVars >>

\* A filter that takes every unread entry, whoever received it.
UnreadOfAnyone(data) ==
  SelectSeq(data, LAMBDA msg : ~msg.read)

\* data?.filter((msg) => msg.receiver_id === currentUser.id && !msg.read)
UnreadOf(data) ==
  SelectSeq(data, LAMBDA msg : msg.receiver_id = Me /\ ~msg.read)

\* The continuation of fetchMessages: setMessages(data), then the batch
\* update of the unread entries when there are any.
FetchResolve ==
  LET unreadMessages == UnreadOf(fetch.data) IN
  /\ fetch.st = "served"
  /\ messages' = fetch.data
  /\ IF Len(unreadMessages) > 0
     THEN /\ marks' = marks \cup { [ ids |-> Ids(unreadMessages), batch |-> TRUE ] }
          /\ fetch' = [ fetch EXCEPT !.st = "marking" ]
     ELSE /\ fetch' = [ fetch EXCEPT !.st = "done" ]
          /\ UNCHANGED marks
  /\ last' = Step("fetchResolve", Null, "none")
  /\ UNCHANGED << store, clock, feed, dups, newMessage, uploading, sends,
                  uploads, delivered, chats, refreshes >>
  /\ UNCHANGED << authVars, storeCap, rosterVars, viewVars >>

\* The backend executes a read-flag update of the session user and
\* publishes the rows it changed; the awaiting fetchMessages then returns.
ServeMark(m) ==
  LET changed == UpdatedIds(store, Me, m.ids) IN
  /\ m \in marks
  /\ marks' = marks \ {m}
  /\ store' = UpdateRead(store, Me, m.ids)
  /\ feed' = feed \o [ i \in 1..Cardinality(changed) |->
                        Event("UPDATE", store'[SeqOfSet(changed)[i]]) ]
  /\ refreshes' = [ refreshes EXCEPT !.events = @ + Cardinality(changed) ]
  /\ fetch' = IF m.batch THEN [ fetch EXCEPT !.st = "done" ] ELSE fetch
  /\ last' = Step("backend", Null, "none")
  /\ UNCHANGED << clock, dups, messages, newMessage, uploading, sends,
                  uploads, delivered, chats >>
  /\ UNCHANGED << authVars, storeCap, rosterVars, viewVars >>

\* --------------------------------------------- selecting a counterpart
\* The user picks another counterpart in the roster or the conversation
\* list: App re-renders the same ChatWindow (it has no key) with the new
\* selectedUser, so messages, newMessage and uploading stay as they are;
\* the effect's cleanup unsubscribes and the effect runs again, calling
\* fetchMessages() for the new pair and subscribing.  A fetchMessages of
\* the former pair that has not resolved stays in flight.
SelectUser(u) ==
  /\ u \in Users \ { Me, selectedUser }
  /\ selectedUser' = u
  /\ stale' = IF fetch.st \in { "issued", "served" }
              THEN stale \cup { [ peer |-> selectedUser, st |-> fetch.st,
                                  data |-> fetch.data ] }
              ELSE stale
  /\ marks' = { [ m EXCEPT !.batch = FALSE ] : m \in marks }
  /\ fetch' = [ st |-> "issued", data |-> <<>> ]
  /\ last' = Step("selectUser", u, "none")
  /\ UNCHANGED << store, clock, feed, dups, messages, newMessage, uploading,
                  sends, uploads, delivered, chats, refreshes >>
  /\ UNCHANGED << authVars, storeCap, rosterVars >>

\* The backend answers the history query of a former pair.
StaleFetchServe(q) ==
  /\ q \in stale /\ q.st = "issued"
  /\ stale' = (stale \ {q}) \cup
       { [ q EXCEPT !.st = "served",
                    !.data = OrderAsc(SelectSeq(store, LAMBDA m :
                       PairOf(m, q.peer)
                       /\ PolicyAdmits("SELECT", Me, m.sender_id, m.receiver_id))) ] }
  /\ last' = Step("backend", Null, "none")
  /\ UNCHANGED << store, clock, feed, dups, messages, newMessage, uploading,
                  sends, fetch, marks, uploads, delivered, chats, refreshes >>
  /\ UNCHANGED << authVars, storeCap, rosterVars, selectedUser >>

\* The continuation of a fetchMessages of a former pair: setMessages(data),
\* then the batch update of the unread entries when there are any.
StaleFetchResolve(q) ==
  LET unreadMessages == UnreadOf(q.data) IN
  /\ q \in stale /\ q.st = "served"
  /\ stale' = stale \ {q}
  /\ messages' = q.data
  /\ marks' = IF Len(unreadMessages) > 0
              THEN marks \cup { [ ids |-> Ids(unreadMessages), batch |-> FALSE ] }
              ELSE marks
  /\ last' = Step("staleFetchResolve", q.peer, "none")
  /\ UNCHANGED << store, clock, feed, dups, newMessage, uploading, sends,
                  fetch, uploads, delivered, chats, refreshes >>
  /\ UNCHANGED << authVars, storeCap, rosterVars, selectedUser >>

\* ------------------------------------------------- handleImageUpload
MiB == KiB * KiB
maxSize == 5 * 1024 * 1024

\* file.type values, as character sequences.
ImagePng == << "i", "m", "a", "g", "e", "/", "p", "n", "g" >>
TextPlain == << "t", "e", "x", "t", "/", "p", "l", "a", "i", "n" >>
FileTypes == { ImagePng, TextPlain }
FileSizes == { maxSize, maxSize + 1, 6 * MiB }
Files == [ type : FileTypes, size : FileSizes ]

\* s.split(sep)[0]: the characters before the first separator.
RECURSIVE SplitFirst(_, _)
SplitFirst(s, sep) ==
  IF s = <<>> \/ Head(s) = sep THEN <<>>
  ELSE << Head(s) >> \o SplitFirst(Tail(s), sep)

\* A size test against twice the ceiling.
SizeRejectedAtDouble(file) == file.size > 2 * maxSize

\* The two validation tests of handleImageUpload, in the order of the code.
TypeRejected(file) == SplitFirst(file.type, "/") # << "i", "m", "a", "g", "e" >>
SizeRejected(file) == file.size > maxSize

\* supabase.storage.from('chat-images').getPublicUrl(filePath).publicUrl
PublicUrl(filePath) == << "chat-images" >> \o filePath

\* Up to the first await: no file, or a file that fails validation, returns
\* with at most an alert; otherwise the flag is set and the upload issued.
HandleImageUpload(f) ==
  /\ IF IsNull(f)
     THEN /\ last' = Step("pickFile", Null, "none")
          /\ UNCHANGED << uploading, uploads >>
     ELSE IF TypeRejected(f[1])
     THEN /\ last' = Step("pickFile", Null, "Please upload an image file")
          /\ UNCHANGED << uploading, uploads >>
     ELSE IF SizeRejected(f[1])
     THEN /\ last' = Step("pickFile", Null, "File size must be less than 5MB")
          /\ UNCHANGED << uploading, uploads >>
     ELSE /\ Cardinality(uploads) < MaxUpload
          /\ uploading' = TRUE
          /\ uploads' = uploads \cup
               { [ n |-> Cardinality(uploads) + 1, file |-> f[1],
                   filePath |-> << Me, clock >>, st |-> "uploading",
                   req |-> Null ] }
          /\ last' = Step("pickFile", Null, "none")
  /\ UNCHANGED << store, clock, feed, dups, messages, newMessage, sends, fetch,
                  marks, delivered, chats, refreshes >>
  /\ UNCHANGED << authVars, storeCap, rosterVars, viewVars >>

\* The continuation after the storage upload, which succeeded (ok) or not:
\* on success the create request for the image message is issued, on
\* failure the catch raises the notice and finally clears the flag.
UploadResolve(u, ok) ==
  LET publicUrl == PublicUrl(u.filePath) IN
  /\ u \in uploads /\ u.st = "uploading"
  /\ IF ok /\ publicUrl # <<>>
     THEN /\ uploads' = (uploads \ {u}) \cup
               { [ u EXCEPT !.st = "creating", !.req = Some(ImageRequest(publicUrl)) ] }
          /\ last' = Step("uploadResolve", u.n, "none")
          /\ UNCHANGED uploading
     ELSE /\ uploads' = (uploads \ {u}) \cup { [ u EXCEPT !.st = "failed" ] }
          /\ uploading' = FALSE
          /\ last' = Step("uploadResolve", u.n,
                          "Failed to upload image. Please try again.")
  /\ UNCHANGED << store, clock, feed, dups, messages, newMessage, sends, fetch,
                  marks, delivered, chats, refreshes >>
  /\ UNCHANGED << authVars, storeCap, rosterVars, viewVars >>

\* The backend executes the insert of the image message.
ServeImageCreate(u) ==
  LET row == RowOf(u.req[1], Len(store) + 1, clock) IN
  /\ u \in uploads /\ u.st = "creating"
  /\ Len(store) < storeCap
  /\ IF RequestAccepted(Me, u.req[1])
     THEN /\ store' = Append(store, row)
          /\ clock' = clock + 1
          /\ feed' = Publish(feed, "INSERT", row)
          /\ refreshes' = [ refreshes EXCEPT !.events = @ + 1 ]
          /\ uploads' = (uploads \ {u}) \cup { [ u EXCEPT !.st = "created" ] }
     ELSE /\ uploads' = (uploads \ {u}) \cup { [ u EXCEPT !.st = "createErr" ] }
          /\ UNCHANGED << store, clock, feed, refreshes >>
  /\ last' = Step("backend", Null, "none")
  /\ UNCHANGED << dups, messages, newMessage, uploading, sends, fetch, marks,
                  delivered, chats >>
  /\ UNCHANGED << authVars, storeCap, rosterVars, viewVars >>

\* The insert of the image message fails: nothing is stored.
FailImageCreate(u) ==
  /\ u \in uploads /\ u.st = "creating"
  /\ uploads' = (uploads \ {u}) \cup { [ u EXCEPT !.st = "createErr" ] }
  /\ last' = Step("backend", Null, "none")
  /\ UNCHANGED << store, clock, feed, dups, messages, newMessage, uploading,
                  sends, fetch, marks, delivered, chats, refreshes >>
  /\ UNCHANGED << authVars, storeCap, rosterVars, viewVars >>

\* The continuation after the insert: the catch raises the notice on an
\* error, and finally clears the flag.
ImageCreateResponse(u) ==
  /\ u \in uploads /\ u.st \in {"created", "createErr"}
  /\ uploading' = FALSE
  /\ IF u.st = "createErr"
     THEN /\ uploads' = (uploads \ {u}) \cup { [ u EXCEPT !.st = "failed" ] }
          /\ last' = Step("imageCreateResponse", u.n,
                          "Failed to upload image. Please try again.")
     ELSE /\ uploads' = (uploads \ {u}) \cup { [ u EXCEPT !.st = "done" ] }
          /\ last' = Step("imageCreateResponse", u.n, "none")
  /\ UNCHANGED << store, clock, feed, dups, messages, newMessage, sends, fetch,
                  marks, delivered, chats, refreshes >>
  /\ UNCHANGED << authVars, storeCap, rosterVars, viewVars >>

\* ------------------------------------------------------------ ChatList
\* Array.prototype.reverse
Reverse(sq) == [ i \in DOMAIN sq |-> sq[Len(sq) + 1 - i] ]

\* The first query of fetchChats: the messages the session user sent or
\* received (and may SELECT), newest first.
UserMessages(st) ==
  Reverse(OrderAsc(SelectSeq(st, LAMBDA m :
    (m.sender_id = Me \/ m.receiver_id = Me)
    /\ PolicyAdmits("SELECT", Me, m.sender_id, m.receiver_id))))

\* new Set(messages.map(msg => msg.sender_id === currentUserId ? msg.receiver_id : msg.sender_id))
CounterpartIds(msgs) ==
  { (IF msgs[i].sender_id = Me THEN msgs[i].receiver_id ELSE msgs[i].sender_id)
      : i \in DOMAIN msgs }

\* A row whose unread count takes in the messages the user sent.
ChatOfCountingSent(profile, msgs) ==
  LET userMessages == SelectSeq(msgs, LAMBDA msg :
          (msg.sender_id = Me /\ msg.receiver_id = profile)
          \/ (msg.sender_id = profile /\ msg.receiver_id = Me))
      unreadCount == Len(SelectSeq(userMessages, LAMBDA msg : ~msg.read))
  IN [ user |-> profile,
       lastMessage |-> IF userMessages = <<>> THEN Null ELSE Some(userMessages[1]),
       unreadCount |-> unreadCount ]

\* The row fetchChats builds for one profile.
ChatOf(profile, msgs) ==
  LET userMessages == SelectSeq(msgs, LAMBDA msg :
          (msg.sender_id = Me /\ msg.receiver_id = profile)
          \/ (msg.sender_id = profile /\ msg.receiver_id = Me))
      unreadCount == Len(SelectSeq(userMessages, LAMBDA msg :
          msg.receiver_id = Me /\ ~msg.read))
  IN [ user |-> profile,
       lastMessage |-> IF userMessages = <<>> THEN Null ELSE Some(userMessages[1]),
       unreadCount |-> unreadCount ]

\* A comparator that puts the older message first.
ChatCompareAscending(a, b) ==
  IF IsNull(a.lastMessage) THEN 1
  ELSE IF IsNull(b.lastMessage) THEN 0 - 1
  ELSE a.lastMessage[1].created_at - b.lastMessage[1].created_at

\* The comparator of chatList.sort: negative when a goes first.
ChatCompare(a, b) ==
  IF IsNull(a.lastMessage) THEN 1
  ELSE IF IsNull(b.lastMessage) THEN 0 - 1
  ELSE b.lastMessage[1].created_at - a.lastMessage[1].created_at

\* Array.prototype.sort with that comparator (stable).
RECURSIVE InsertChat(_, _)
InsertChat(c, sq) ==
  IF sq = <<>> THEN << c >>
  ELSE IF ChatCompare(Head(sq), c) > 0
       THEN << c >> \o sq
       ELSE << Head(sq) >> \o InsertChat(c, Tail(sq))

RECURSIVE SortChats(_)
SortChats(sq) ==
  IF sq = <<>> THEN <<>>
  ELSE InsertChat(sq[Len(sq)], SortChats(SubSeq(sq, 1, Len(sq) - 1)))

\* The list fetchChats computes from the rows its queries returned; the
\* profiles query returns the profiles of the counterparts.
ChatListOf(msgs) ==
  LET found == SeqOfSet(CounterpartIds(msgs) \cap Users) IN
  SortChats([ i \in DOMAIN found |-> ChatOf(found[i], msgs) ])

\* A change event of the messages table reaches the list's channel
\* (event: '*'): its callback calls fetchChats().
ListNotification ==
  /\ refreshes.events > 0
  /\ refreshes.issued + Cardinality(refreshes.served) < MaxRefresh
  /\ refreshes' = [ refreshes EXCEPT !.events = @ - 1, !.issued = @ + 1 ]
  /\ last' = Step("backend", Null, "none")
  /\ UNCHANGED << store, clock, feed, dups, messages, newMessage, uploading,
                  sends, fetch, marks, uploads, delivered, chats >>
  /\ UNCHANGED << authVars, storeCap, rosterVars, viewVars >>

\* The backend answers the queries of one fetchChats with the store as it
\* is now.
FetchChatsServe ==
  /\ refreshes.issued > 0
  /\ refreshes' = [ refreshes EXCEPT !.issued = @ - 1,
                                     !.served = @ \cup { UserMessages(store) } ]
  /\ last' = Step("backend", Null, "none")
  /\ UNCHANGED << store, clock, feed, dups, messages, newMessage, uploading,
                  sends, fetch, marks, uploads, delivered, chats >>
  /\ UNCHANGED << authVars, storeCap, rosterVars, viewVars >>

\* The continuation of fetchChats: setChats(chatList).
FetchChatsResolve(data) ==
  /\ data \in refreshes.served
  /\ refreshes' = [ refreshes EXCEPT !.served = @ \ { data } ]
  /\ chats' = ChatListOf(data)
  /\ last' = Step("fetchChatsResolve", Null, "none")
  /\ UNCHANGED << store, clock, feed, dups, messages, newMessage, uploading,
                  sends, fetch, marks, uploads, delivered >>
  /\ UNCHANGED << authVars, storeCap, rosterVars, viewVars >>

\* ----------------------------------------------------------------- App
\* The users that may sign in on this client.
AuthUsers == { Me, Peer }

\* Requests in flight form a multiset: equal requests are told apart by k.
Same(a, b) == [ a EXCEPT !.k = 0 ] = [ b EXCEPT !.k = 0 ]
Copies(pd, r) == Cardinality({ x \in pd : Same(x, r) })
Add(pd, r) == pd \cup { [ r EXCEPT !.k = Copies(pd, r) + 1 ] }
Remove(pd, r) == pd \ { [ r EXCEPT !.k = Copies(pd, r) ] }

Request(kind, uid, auth, ts) ==
  [ kind |-> kind, uid |-> uid, auth |-> auth, ts |-> ts, st |-> "issued", k |-> 0 ]

\* The App has just been mounted: its effect has called getSession() and
\* subscribed to the authentication events; the auth client may hold a
\* persisted session.
InitAuth ==
  /\ InitChat
  /\ authSession \in { Null, Some(Me) }
  /\ session = Null
  /\ currentUser = Null
  /\ pending = { [ Request("getSession", "-", Null, 0) EXCEPT !.k = 1 ] }
  /\ profiles = NewProfiles
  /\ tick = 1
  /\ authEvents = 0
  /\ storeCap = MaxStore
  /\ RosterIdle

\* fetchProfile(userId) up to its await: the profile query is issued with
\* the credentials the auth client holds.
FetchProfileIssued(pd, userId, auth) == Add(pd, Request("profile", userId, auth, 0))

\* The continuation of getSession(): setSession, and fetchProfile when the
\* session has a user.
GetSessionResolve ==
  \E q \in pending :
    /\ q.kind = "getSession"
    /\ session' = authSession
    /\ pending' = IF IsNull(authSession)
                  THEN Remove(pending, q)
                  ELSE FetchProfileIssued(Remove(pending, q), authSession[1], authSession)
    /\ last' = Step("getSession", Null, "none")
    /\ UNCHANGED << authSession, currentUser, profiles, tick, authEvents >>
    /\ UNCHANGED << chatVars, storeCap, rosterVars, viewVars >>

\* The onAuthStateChange callback, called with the new session.
OnAuthStateChange(sess) ==
  /\ session' = sess
  /\ IF ~IsNull(sess)
     THEN /\ pending' = FetchProfileIssued(pending, sess[1], sess)
          /\ UNCHANGED currentUser
     ELSE /\ currentUser' = Null
          /\ UNCHANGED pending

\* The Login screen signs user u in: the auth client emits SIGNED_IN.
SignIn(u) ==
  /\ IsNull(session)
  /\ authEvents < MaxAuthEvents
  /\ authEvents' = authEvents + 1
  /\ authSession' = Some(u)
  /\ OnAuthStateChange(Some(u))
  /\ last' = Step("signedIn", u, "none")
  /\ UNCHANGED << profiles, tick >>
  /\ UNCHANGED << chatVars, storeCap, rosterVars, viewVars >>

\* The auth client refreshes its token and emits TOKEN_REFRESHED.
TokenRefresh ==
  /\ ~IsNull(authSession)
  /\ authEvents < MaxAuthEvents
  /\ authEvents' = authEvents + 1
  /\ OnAuthStateChange(authSession)
  /\ last' = Step("tokenRefreshed", authSession[1], "none")
  /\ UNCHANGED << authSession, profiles, tick >>
  /\ UNCHANGED << chatVars, storeCap, rosterVars, viewVars >>

\* The session ends without the App asking (expiry, sign-out elsewhere):
\* the auth client emits SIGNED_OUT.
SessionEnds ==
  /\ ~IsNull(authSession)
  /\ authEvents < MaxAuthEvents
  /\ authEvents' = authEvents + 1
  /\ authSession' = Null
  /\ OnAuthStateChange(Null)
  /\ last' = Step("signedOut", Null, "none")
  /\ UNCHANGED << profiles, tick >>
  /\ UNCHANGED << chatVars, storeCap, rosterVars, viewVars >>

\* The backend answers a profile query: the row (profiles are viewable by
\* authenticated users), or an error.
ServeProfile(q, ok) ==
  /\ q \in pending /\ q.kind = "profile" /\ q.st = "issued"
  /\ pending' = Add(Remove(pending, q),
                    [ q EXCEPT !.st = IF ok /\ ~IsNull(q.auth) THEN "ok" ELSE "err" ])
  /\ last' = Step("backend", Null, "none")
  /\ UNCHANGED << authSession, session, currentUser, profiles, tick, authEvents >>
  /\ UNCHANGED << chatVars, storeCap, rosterVars, viewVars >>

\* A continuation that asks again when the query failed.
ProfileResponseRetrying(q) ==
  /\ q \in pending /\ q.kind = "profile" /\ q.st \in { "ok", "err" }
  /\ IF q.st = "err"
     THEN /\ pending' = FetchProfileIssued(Remove(pending, q), q.uid, authSession)
          /\ UNCHANGED currentUser
     ELSE /\ currentUser' = Some(q.uid)
          /\ pending' = Add(Remove(pending, q), Request("online", q.uid, authSession, 0))
  /\ last' = Step("profileResponse", q.uid, "none")
  /\ UNCHANGED << authSession, session, profiles, tick, authEvents >>
  /\ UNCHANGED << chatVars, storeCap, rosterVars, viewVars >>

\* The continuation of fetchProfile: an error is logged; otherwise
\* setCurrentUser(data) and the presence write is issued.
ProfileResponse(q) ==
  /\ q \in pending /\ q.kind = "profile" /\ q.st \in { "ok", "err" }
  /\ IF q.st = "err"
     THEN /\ pending' = Remove(pending, q)
          /\ UNCHANGED currentUser
     ELSE /\ currentUser' = Some(q.uid)
          /\ pending' = Add(Remove(pending, q), Request("online", q.uid, authSession, 0))
  /\ last' = Step("profileResponse", q.uid, "none")
  /\ UNCHANGED << authSession, session, profiles, tick, authEvents >>
  /\ UNCHANGED << chatVars, storeCap, rosterVars, viewVars >>

\* "Users can update own profile": USING (auth.uid() = id).
ProfileUpdateAdmitted(auth, id) == auth = Some(id)

\* The backend executes a presence write (or the request fails).  The
\* online write has no continuation; the offline write is awaited.
ServePresence(w, ok) ==
  /\ w \in pending /\ w.kind \in { "online", "offline" } /\ w.st = "issued"
  /\ profiles' =
       IF ok /\ ProfileUpdateAdmitted(w.auth, w.uid)
       THEN IF w.kind = "online"
            THEN [ profiles EXCEPT ![w.uid].status = "online" ]
            ELSE [ profiles EXCEPT ![w.uid] = [ status |-> "offline", last_seen |-> w.ts ] ]
       ELSE profiles
  /\ pending' = IF w.kind = "online"
                THEN Remove(pending, w)
                ELSE Add(Remove(pending, w), [ w EXCEPT !.st = "served" ])
  /\ last' = Step("backend", Null, "none")
  /\ UNCHANGED << authSession, session, currentUser, tick, authEvents >>
  /\ UNCHANGED << chatVars, storeCap, rosterVars, viewVars >>

\* A sign-out that does not await the offline write: both requests are
\* issued in the same step.
HandleSignOutUnawaited ==
  /\ ~IsNull(session)
  /\ authEvents < MaxAuthEvents
  /\ authEvents' = authEvents + 1
  /\ IF ~IsNull(currentUser)
     THEN /\ pending' = Add(Add(pending, Request("offline", currentUser[1], authSession, tick)),
                            Request("signOut", "-", Null, 0))
          /\ tick' = tick + 1
     ELSE /\ pending' = Add(pending, Request("signOut", "-", Null, 0))
          /\ UNCHANGED tick
  /\ last' = Step("handleSignOut", Null, "none")
  /\ UNCHANGED << authSession, session, currentUser, profiles >>
  /\ UNCHANGED << chatVars, storeCap, rosterVars, viewVars >>

\* handleSignOut up to its first await: with a profile exposed the offline
\* write is issued, otherwise signOut() is called at once.
HandleSignOut ==
  /\ ~IsNull(session)
  /\ authEvents < MaxAuthEvents
  /\ authEvents' = authEvents + 1
  /\ IF ~IsNull(currentUser)
     THEN /\ pending' = Add(pending, Request("offline", currentUser[1], authSession, tick))
          /\ tick' = tick + 1
     ELSE /\ pending' = Add(pending, Request("signOut", "-", Null, 0))
          /\ UNCHANGED tick
  /\ last' = Step("handleSignOut", Null, "none")
  /\ UNCHANGED << authSession, session, currentUser, profiles >>
  /\ UNCHANGED << chatVars, storeCap, rosterVars, viewVars >>

\* handleSignOut after the offline write: signOut() is called.
OfflineWritten(w) ==
  /\ w \in pending /\ w.kind = "offline" /\ w.st = "served"
  /\ pending' = Add(Remove(pending, w), Request("signOut", "-", Null, 0))
  /\ last' = Step("offlineWritten", w.uid, "none")
  /\ UNCHANGED << authSession, session, currentUser, profiles, tick, authEvents >>
  /\ UNCHANGED << chatVars, storeCap, rosterVars, viewVars >>

\* signOut() completes: the auth client drops the session and emits
\* SIGNED_OUT.
SignOutResolve(q) ==
  /\ q \in pending /\ q.kind = "signOut"
  /\ authSession' = Null
  /\ session' = Null
  /\ currentUser' = Null
  /\ pending' = Remove(pending, q)
  /\ last' = Step("signedOut", Null, "none")
  /\ UNCHANGED << profiles, tick, authEvents >>
  /\ UNCHANGED << chatVars, storeCap, rosterVars, viewVars >>

\* ------------------------------------------------------------ UserList
\* Search terms typed into the roster's input.
Terms == { <<>>, << "a", "b" >>, << "B", "A" >>, << "b", "b", "b", "b" >> }

\* Character codes of the letters usernames are made of.
Code(c) ==
  CASE c = "A" -> 65 [] c = "B" -> 66 [] c = "a" -> 97 [] c = "b" -> 98
    [] OTHER -> 0

\* Text comparison of ORDER BY username: by character code, a proper
\* prefix first.
RECURSIVE TextLess(_, _)
TextLess(a, b) ==
  IF b = <<>> THEN FALSE
  ELSE IF a = <<>> THEN TRUE
  ELSE IF Code(Head(a)) # Code(Head(b)) THEN Code(Head(a)) < Code(Head(b))
  ELSE TextLess(Tail(a), Tail(b))

\* The row of profile u as a query returns it.
ProfileRow(u) ==
  [ id |-> u, username |-> usernames[u], status |-> profiles[u].status ]

\* .neq('id', currentUserId) that lets every profile through.
OthersAndSelf(currentUserId) == Users

\* .neq('id', currentUserId)
Others(currentUserId) == { u \in Users : u # currentUserId }

\* The results the profiles query of fetchUsers may return: the rows of
\* the other profiles in ascending username order; rows with equal
\* usernames come in either order.
FetchUsersData(currentUserId) ==
  LET ids == Others(currentUserId)
      n == Cardinality(ids)
      orders == { f \in [ 1..n -> ids ] :
                    /\ \A i, j \in 1..n : i # j => f[i] # f[j]
                    /\ \A i \in 1..(n - 1) :
                         ~TextLess(usernames[f[i + 1]], usernames[f[i]]) }
  IN { [ i \in 1..n |-> ProfileRow(f[i]) ] : f \in orders }

\* A comparison that keeps the case of the letters.
KeepCase(t) == t

\* String.prototype.toLowerCase
ToLowerCase(t) ==
  [ i \in DOMAIN t |->
      CASE t[i] = "A" -> "a" [] t[i] = "B" -> "b" [] OTHER -> t[i] ]

\* String.prototype.includes
Includes(t, part) ==
  \E i \in 0..(Len(t) - Len(part)) : SubSeq(t, i + 1, i + Len(part)) = part

\* filteredUsers, computed on every render.
FilteredUsers(us, term) ==
  SelectSeq(us, LAMBDA user :
    Includes(ToLowerCase(user.username), ToLowerCase(term)))

\* The user types into the roster's search input.
TypeSearch(t) ==
  /\ searchTerm' = t
  /\ last' = Step("typeSearch", Null, "none")
  /\ UNCHANGED << usernames, users, userFetch >>
  /\ UNCHANGED << chatVars, authVars, storeCap, viewVars >>

\* Another user's presence changes: the profiles table is updated and a
\* change event is sent to the roster's channel.
PresenceChanged(u, status) ==
  /\ u # Me
  /\ profiles[u].status # status
  /\ userFetch.events + userFetch.issued + Cardinality(userFetch.served) < MaxUserFetch
  /\ profiles' = [ profiles EXCEPT ![u].status = status ]
  /\ userFetch' = [ userFetch EXCEPT !.events = @ + 1 ]
  /\ last' = Step("backend", Null, "none")
  /\ UNCHANGED << authSession, session, currentUser, pending, tick, authEvents >>
  /\ UNCHANGED << usernames, users, searchTerm >>
  /\ UNCHANGED << chatVars, storeCap, viewVars >>

\* The change event reaches the roster's channel (event: '*'): its
\* callback calls fetchUsers().
RosterNotification ==
  /\ userFetch.events > 0
  /\ userFetch' = [ userFetch EXCEPT !.events = @ - 1, !.issued = @ + 1 ]
  /\ last' = Step("backend", Null, "none")
  /\ UNCHANGED << usernames, users, searchTerm >>
  /\ UNCHANGED << chatVars, authVars, storeCap, viewVars >>

\* The backend answers one profiles query of fetchUsers with the table as
\* it is now, or with an error.
FetchUsersServe(ok) ==
  /\ userFetch.issued > 0
  /\ \E data \in FetchUsersData(currentUser[1]) :
       userFetch' = [ userFetch EXCEPT
                        !.issued = @ - 1,
                        !.served = @ \cup { IF ok THEN Some(data) ELSE Null } ]
  /\ last' = Step("backend", Null, "none")
  /\ UNCHANGED << usernames, users, searchTerm >>
  /\ UNCHANGED << chatVars, authVars, storeCap, viewVars >>

\* The continuation of fetchUsers: an error is logged, otherwise
\* setUsers(data || []).
FetchUsersResolve(resp) ==
  /\ resp \in userFetch.served
  /\ IF IsNull(resp)
     THEN /\ userFetch' = [ userFetch EXCEPT !.served = @ \ { resp } ]
          /\ UNCHANGED users
     ELSE /\ userFetch' = [ userFetch EXCEPT !.served = @ \ { resp }, !.loaded = TRUE ]
          /\ users' = resp[1]
  /\ last' = Step("fetchUsersResolve", Null, "none")
  /\ UNCHANGED << usernames, searchTerm >>
  /\ UNCHANGED << chatVars, authVars, storeCap, viewVars >>

\* ------------------------------------------------------------------ Next
\* The conversation view with text sends: the optimistic path, the
\* counterparts' messages, the realtime feed and the history fetch.
Next ==
  \/ TypeText(<< " ", "a", " " >>)
  \/ HandleSendMessage
  \/ \E r \in sends : ServeCreate(r)
  \/ \E r \in sends : FailCreate(r)
  \/ \E r \in sends : CreateResponse(r)
  \/ \E s \in {Peer, Other} : PeerInsert(s, Some(<<"b">>), Null)
  \/ Deliver
  \/ Duplicate
  \/ FetchServe
  \/ FetchFail
  \/ FetchResolve
  \/ \E m \in marks : ServeMark(m)

Spec == Init /\ [][Next]_vars

\* The same view over a table of SmallStore rows.
SpecFeed == InitSmall /\ [][Next]_vars

\* Opening the view and the read flags: the counterparts' messages, the
\* history fetch with its batch update, the feed, the per-message updates
\* and the refreshes of the conversation list.
NextRead ==
  \/ \E s \in {Peer, Other} : PeerInsert(s, Some(<<"b">>), Null)
  \/ \E id \in DOMAIN store : OwnerSetRead(id)
  \/ Deliver
  \/ FetchServe
  \/ FetchResolve
  \/ \E m \in marks : ServeMark(m)
  \/ ListNotification
  \/ FetchChatsServe
  \/ \E data \in refreshes.served : FetchChatsResolve(data)

SpecRead == Init /\ [][NextRead]_vars

\* The image attachment path next to the text input, the feed and the
\* history fetch.
NextImage ==
  \/ TypeText(<< " ", "a", " " >>)
  \/ \E f \in { Null } \cup { Some(x) : x \in Files } : HandleImageUpload(f)
  \/ \E u \in uploads, ok \in BOOLEAN : UploadResolve(u, ok)
  \/ \E u \in uploads : ServeImageCreate(u)
  \/ \E u \in uploads : FailImageCreate(u)
  \/ \E u \in uploads : ImageCreateResponse(u)
  \/ PeerInsert(Peer, Null, Some("img"))
  \/ Deliver
  \/ FetchServe
  \/ FetchResolve
  \/ \E m \in marks : ServeMark(m)

SpecImage == InitSmall /\ [][NextImage]_vars

\* Everything that creates messages: the text path with any input, the
\* image path with a valid attachment whose upload succeeds, and another
\* client inserting any combination of body and image.  The store serves
\* every create request it is handed or turns it down by its constraint.
ValidFile == [ type |-> ImagePng, size |-> 2 * MiB ]

NextCreate ==
  \/ \E s \in Inputs : TypeText(s)
  \/ HandleSendMessage
  \/ \E r \in sends : ServeCreate(r)
  \/ \E r \in sends : CreateResponse(r)
  \/ HandleImageUpload(Some(ValidFile))
  \/ \E u \in uploads : UploadResolve(u, TRUE)
  \/ \E u \in uploads : ServeImageCreate(u)
  \/ \E u \in uploads : ImageCreateResponse(u)
  \/ \E c \in PeerBodies, img \in PeerImages : PeerInsert(Peer, c, img)

SpecCreate == InitSmall /\ [][NextCreate]_vars

\* The session component: authentication events, profile resolution,
\* presence writes and sign-out.
NextAuth ==
  \/ GetSessionResolve
  \/ \E u \in AuthUsers : SignIn(u)
  \/ TokenRefresh
  \/ SessionEnds
  \/ \E q \in pending, ok \in BOOLEAN : ServeProfile(q, ok)
  \/ \E q \in pending : ProfileResponse(q)
  \/ \E w \in pending, ok \in BOOLEAN : ServePresence(w, ok)
  \/ HandleSignOut
  \/ \E w \in pending : OfflineWritten(w)
  \/ \E q \in pending : SignOutResolve(q)

SpecAuth == InitAuth /\ [][NextAuth]_vars

\* useState<Profile | null>(null): no counterpart has been selected.
NoOne == "none"

\* The App has just been mounted and no conversation view has been opened:
\* selectedUser is null, the view's state is the one it starts from.
InitApp ==
  /\ store = <<>>
  /\ clock = 1
  /\ feed = <<>>
  /\ dups = 0
  /\ messages = <<>>
  /\ newMessage = <<>>
  /\ uploading = FALSE
  /\ sends = {}
  /\ fetch = [ st |-> "issued", data |-> <<>> ]
  /\ marks = {}
  /\ uploads = {}
  /\ delivered = {}
  /\ chats = <<>>
  /\ refreshes = [ events |-> 0, issued |-> 1, served |-> {} ]
  /\ last = Step("mount", Null, "none")
  /\ selectedUser = NoOne
  /\ stale = {}
  /\ authSession \in { Null, Some(Me) }
  /\ session = Null
  /\ currentUser = Null
  /\ pending = { [ Request("getSession", "-", Null, 0) EXCEPT !.k = 1 ] }
  /\ profiles = NewProfiles
  /\ tick = 1
  /\ authEvents = 0
  /\ storeCap = MaxStore
  /\ RosterIdle

\* onSelectUser={setSelectedUser}: a row of the roster or of the
\* conversation list is clicked.  The lists are rendered only while
\* session is set, and they offer the profiles other than session.user.id.
OnSelectUser(u) ==
  /\ ~IsNull(session)
  /\ u \in Others(session[1])
  /\ selectedUser' = u
  /\ last' = Step("onSelectUser", u, "none")
  /\ UNCHANGED << chatVars, authVars, storeCap, rosterVars, stale >>

\* The App as a whole: the session component and the selection of a
\* counterpart.  Nothing but onSelectUser assigns selectedUser.
NextApp ==
  \/ NextAuth
  \/ \E u \in Users : OnSelectUser(u)

SpecApp == InitApp /\ [][NextApp]_vars

\* The session component when every session is ended by the sign-out
\* button.
NextSignOut ==
  \/ GetSessionResolve
  \/ \E u \in AuthUsers : SignIn(u)
  \/ TokenRefresh
  \/ \E q \in pending, ok \in BOOLEAN : ServeProfile(q, ok)
  \/ \E q \in pending : ProfileResponse(q)
  \/ \E w \in pending, ok \in BOOLEAN : ServePresence(w, ok)
  \/ HandleSignOut
  \/ \E w \in pending : OfflineWritten(w)
  \/ \E q \in pending : SignOutResolve(q)

SpecSignOut == InitAuth /\ [][NextSignOut]_vars

\* The roster is on screen for the session user: its effect has called
\* fetchUsers() and subscribed; the profiles table holds any usernames.
InitRoster ==
  /\ Opened
  /\ storeCap = SmallStore
  /\ usernames \in [ Users -> UserNames ]
  /\ users = <<>>
  /\ searchTerm = <<>>
  /\ userFetch = [ events |-> 0, issued |-> 1, served |-> {}, loaded |-> FALSE ]

NextRoster ==
  \/ \E t \in Terms : TypeSearch(t)
  \/ \E u \in Users, status \in { "online", "offline" } : PresenceChanged(u, status)
  \/ RosterNotification
  \/ \E ok \in BOOLEAN : FetchUsersServe(ok)
  \/ \E resp \in userFetch.served : FetchUsersResolve(resp)

SpecRoster == InitRoster /\ [][NextRoster]_vars

\* The tables of k messages that inserts by the users' clients and read
\* flags set since can have produced: row i has identifier and timestamp i.
StoredRows(k) ==
  LET ends == { p \in Users \X Users : p[1] # p[2] } IN
  { [ i \in 1..k |->
        [ Row(i, f[i][1][1], f[i][1][2], Some(<<"b">>), Null, i)
            EXCEPT !.read = f[i][2] ] ]
      : f \in [ 1..k -> ends \X BOOLEAN ] }

\* The conversation list has just been mounted over a table that already
\* holds messages: its effect has called fetchChats() and subscribed.
InitList ==
  /\ store \in UNION { StoredRows(k) : k \in 0..MaxStore }
  /\ clock = Len(store) + 1
  /\ feed = <<>>
  /\ dups = 0
  /\ messages = <<>>
  /\ newMessage = <<>>
  /\ uploading = FALSE
  /\ sends = {}
  /\ fetch = [ st |-> "issued", data |-> <<>> ]
  /\ marks = {}
  /\ uploads = {}
  /\ delivered = {}
  /\ chats = <<>>
  /\ refreshes = [ events |-> 0, issued |-> 1, served |-> {} ]
  /\ last = Step("mount", Null, "none")
  /\ selectedUser = Peer
  /\ stale = {}
  /\ authSession = Some(Me)
  /\ session = Some(Me)
  /\ currentUser = Some(Me)
  /\ pending = {}
  /\ profiles = [ NewProfiles EXCEPT ![Me].status = "online" ]
  /\ tick = 1
  /\ authEvents = 0
  /\ storeCap = MaxStore
  /\ RosterIdle

\* The conversation list over such a table: further messages arrive and
\* the list is refreshed.
NextList ==
  \/ \E s \in {Peer, Other} : PeerInsert(s, Some(<<"b">>), Null)
  \/ ListNotification
  \/ FetchChatsServe
  \/ \E data \in refreshes.served : FetchChatsResolve(data)

SpecList == InitList /\ [][NextList]_vars

\* The conversation view while the user moves between counterparts: text
\* sends, the counterparts' messages, the feed and the history fetches of
\* the pair shown and of former pairs.
NextView ==
  \/ TypeText(<< " ", "a", " " >>)
  \/ HandleSendMessage
  \/ \E r \in sends : ServeCreate(r)
  \/ \E r \in sends : FailCreate(r)
  \/ \E r \in sends : CreateResponse(r)
  \/ \E s \in {Peer, Other} : PeerInsert(s, Some(<<"b">>), Null)
  \/ \E u \in Users : SelectUser(u)
  \/ Deliver
  \/ FetchServe
  \/ FetchResolve
  \/ \E q \in stale : StaleFetchServe(q)
  \/ \E q \in stale : StaleFetchResolve(q)
  \/ \E m \in marks : ServeMark(m)

SpecView == InitSmall /\ [][NextView]_vars

\* Text sends and their confirmation next to the messages of the
\* counterpart and of a third user arriving through the feed and the
\* history fetch, with the read-flag updates these issue.
NextConfirm ==
  \/ TypeText(<< " ", "a", " " >>)
  \/ HandleSendMessage
  \/ \E r \in sends : ServeCreate(r)
  \/ \E r \in sends : CreateResponse(r)
  \/ \E s \in {Peer, Other} : PeerInsert(s, Some(<<"b">>), Null)
  \/ Deliver
  \/ FetchServe
  \/ FetchResolve
  \/ \E m \in marks : ServeMark(m)

SpecConfirm == Init /\ [][NextConfirm]_vars

\* ======================================================================
\* Properties of the conversation view
\* ======================================================================

\* C1: for every optimistic send whose create request succeeded, once the
\* create response and the INSERT notification of its message have both
\* been processed, the visible sequence holds exactly one entry for it.
RoundTripExactlyOne ==
  \A r \in sends :
    (r.st = "done" /\ r.data[1].id \in delivered)
      => Count(messages, r.data[1].id) = 1

\* C2: the visible sequence is in ascending creation-timestamp order in
\* every reachable state.
VisibleAscending ==
  \A i, j \in DOMAIN messages :
    i < j => messages[i].created_at <= messages[j].created_at

\* C3: processing an INSERT notification whose identifier is already in
\* the visible sequence leaves the sequence as it is, and no delivery makes
\* an identifier that occurs in the sequence occur once more.
InsertDeliveryIdempotent ==
  [][ (last'.op = "deliver" /\ feed # <<>> /\ Head(feed).type = "INSERT")
        => LET nm == Head(feed).row IN
           /\ (nm.id \in Ids(messages) => messages' = messages)
           /\ \A id \in Ids(messages') :
                Count(messages', id) <= IF id \in Ids(messages)
                                        THEN Count(messages, id) ELSE 1 ]_vars

\* C3 witness: the same notification has been delivered a second time and
\* its message is in the visible sequence once.
RedeliveredOnce ==
  /\ last.op = "deliver"
  /\ last.arg[2]
  /\ Count(messages, last.arg[1]) = 1

Quiescent ==
  /\ fetch.st \in { "done", "failed" }
  /\ marks = {}
  /\ feed = <<>>
  /\ refreshes = [ events |-> 0, issued |-> 0, served |-> {} ]

\* C5: when the history fetch returned every message of the pair, then once
\* the fetch, the batch update and the refreshes have completed, every message of the pair addressed to the session user
\* has read = true in the store and the list shows no unread message for
\* the counterpart.
OpenMarksAllRead ==
  (/\ Quiescent
   /\ fetch.st = "done"
   /\ \A i \in DOMAIN store : IsPair(store[i]) => store[i].id \in Ids(fetch.data))
    => /\ \A i \in DOMAIN store :
            (store[i].sender_id = Peer /\ store[i].receiver_id = Me)
              => store[i].read
       /\ \A k \in DOMAIN chats : chats[k].user = Peer => chats[k].unreadCount = 0

\* C6: when an UPDATE event of a message of the open pair is delivered to
\* the view, the local entry with that identifier takes the read flag of
\* the event.
UpdateEventApplied ==
  [][ (last'.op = "deliver" /\ feed # <<>> /\ Head(feed).type = "UPDATE"
       /\ IsPair(Head(feed).row))
        => \A i \in DOMAIN messages' :
             messages'[i].id = Head(feed).row.id
               => messages'[i].read = Head(feed).row.read ]_vars

\* ======================================================================
\* Properties of the image attachment path
\* ======================================================================

\* An attachment of image type: its MIME type starts with "image/".
OfImageType(x) ==
  Len(x.type) >= 6 /\ SubSeq(x.type, 1, 6) = << "i", "m", "a", "g", "e", "/" >>

\* The size ceiling of the specification: 5 MiB.
OverCeiling(x) == x.size > 5 * 1024 * 1024

\* The create requests the image path has issued, each with the number of
\* the upload that issued it.
ImageRequests(ups) == { << u.n, u.req[1] >> : u \in { v \in ups : ~IsNull(v.req) } }

\* C7: picking an attachment that is not of image type or is over the size
\* ceiling issues no upload and no create request, leaves the visible
\* sequence unchanged and does not set the uploading flag.
InvalidAttachmentRejected ==
  [][ \A x \in Files :
        (HandleImageUpload(Some(x)) /\ (~OfImageType(x) \/ OverCeiling(x)))
          => /\ uploads' = uploads
             /\ uploading' = uploading
             /\ messages' = messages
             /\ UNCHANGED << store, feed, sends >>
             /\ last'.alert # "none" ]_vars

\* C7 witness: an oversize image has just been rejected with nothing uploading.
OversizeRejected ==
  /\ last.op = "pickFile"
  /\ last.alert = "File size must be less than 5MB"
  /\ ~uploading
  /\ uploads = {}

\* C8: no step of the image path changes the visible sequence or the text
\* input (the sequence changes only in the submit, create-response,
\* notification and history continuations); a successful upload issues
\* exactly one create request, with the image reference set and the body
\* unset; a failed upload or create raises a notice.
ImagePathLeavesSequence ==
  [][ /\ (last'.op \in { "pickFile", "uploadResolve", "imageCreateResponse" })
          => UNCHANGED << messages, newMessage, sends >>
      /\ messages' # messages
          => last'.op \in { "submit", "createResponse", "deliver", "fetchResolve" }
      /\ \A u \in uploads :
           (last'.op = "uploadResolve" /\ last'.arg = u.n)
             => IF last'.alert = "none"
                THEN \E q \in ImageRequests(uploads') :
                       /\ q \notin ImageRequests(uploads)
                       /\ ImageRequests(uploads') = ImageRequests(uploads) \cup { q }
                       /\ q[1] = u.n
                       /\ ~IsNull(q[2].image_url)
                       /\ IsNull(q[2].content)
                ELSE /\ ImageRequests(uploads') = ImageRequests(uploads)
                     /\ ~uploading'
      /\ \A u \in uploads :
           (last'.op = "imageCreateResponse" /\ last'.arg = u.n)
             => /\ (u.st = "createErr" <=> last'.alert # "none")
                /\ ImageRequests(uploads') = ImageRequests(uploads) ]_vars

\* C8 witness: the create request of an uploaded image has failed while the
\* input held text and the sequence an entry; the notice is up.
ImageCreateFailedQuietly ==
  /\ last.op = "imageCreateResponse"
  /\ last.alert = "Failed to upload image. Please try again."
  /\ newMessage # <<>>
  /\ messages # <<>>
  /\ \E q \in ImageRequests(uploads) : IsNull(q[2].content) /\ ~IsNull(q[2].image_url)

\* ======================================================================
\* The content-or-image invariant
\* ======================================================================

\* A record carries a textual body or an image reference.
HasBodyOrImage(x) == ~IsNull(x.content) \/ ~IsNull(x.image_url)

\* C9: every row of the store and every create request of the client has a
\* body or an image reference (a text request has a non-empty body); a
\* submit of an empty or blank input adds no entry and issues no request;
\* an insert the store rejects leaves the store as it was.
ContentOrImagePresent ==
  [][ /\ \A i \in DOMAIN store' : HasBodyOrImage(store'[i])
      /\ \A r \in sends' :
           HasBodyOrImage(r.req) /\ ~IsNull(r.req.content) /\ r.req.content[1] # <<>>
      /\ \A q \in ImageRequests(uploads') : HasBodyOrImage(q[2])
      /\ (last'.op = "submit" /\ \A k \in DOMAIN newMessage : newMessage[k] = " ")
           => UNCHANGED << messages, sends, store, feed, newMessage >>
      /\ last'.op = "insertRejected" => UNCHANGED << store, feed >> ]_vars

\* C9 witness: the store holds a message of the client, a create request
\* of the text path and one of the image path have been issued, and a
\* record with neither field has just been rejected.
NeitherRejected ==
  /\ last.op = "insertRejected"
  /\ last.arg = << Null, Null >>
  /\ \E i \in DOMAIN store : store[i].sender_id = Me
  /\ sends # {}
  /\ ImageRequests(uploads) # {}

\* ======================================================================
\* Properties of the session component
\* ======================================================================

\* C10: while the App is unauthenticated (from a transition to the
\* unauthenticated state until the next transition to an authenticated
\* one) the exposed profile is unset.
NoProfileWhileSignedOut ==
  IsNull(session) => IsNull(currentUser)

\* The requests of one kind that are in flight.
OfKind(pd, kind) == { q \in pd : q.kind = kind }

\* C11: an explicit sign-out with a profile exposed issues the offline
\* write for that profile, stamped with the current time (later than the
\* profile's last-active timestamp), and no session-termination request in
\* that step; a session-termination request is only ever issued by a
\* sign-out that found no profile exposed or by the continuation of an
\* offline write that has resolved.
OfflineBeforeSignOut ==
  [][ /\ (last'.op = "handleSignOut" /\ ~IsNull(currentUser))
           => /\ \E w \in OfKind(pending', "offline") \ pending :
                   /\ w.uid = currentUser[1]
                   /\ w.st = "issued"
                   /\ w.ts = tick
                   /\ w.ts > profiles[w.uid].last_seen
              /\ OfKind(pending', "signOut") = OfKind(pending, "signOut")
      /\ Cardinality(OfKind(pending', "signOut")) > Cardinality(OfKind(pending, "signOut"))
           => \/ last'.op = "handleSignOut" /\ IsNull(currentUser)
              \/ /\ last'.op = "offlineWritten"
                 /\ \E w \in OfKind(pending, "offline") :
                      w.st = "served" /\ w.uid = last'.arg /\ w \notin pending' ]_vars

\* C11 witness: the offline write of the exposed profile has taken effect
\* and its continuation has just issued the session-termination request
\* while the session is still in place.
SignOutAfterOffline ==
  /\ last.op = "offlineWritten"
  /\ ~IsNull(session) /\ ~IsNull(authSession)
  /\ currentUser = Some(last.arg)
  /\ profiles[last.arg].status = "offline"
  /\ profiles[last.arg].last_seen > 0
  /\ OfKind(pending, "signOut") # {}


\* The steps in which the App learns of an authentication event (or of the
\* session it started with).
AuthEventOps == { "getSession", "signedIn", "tokenRefreshed" }

\* C12 as stated: after a failed profile resolution the exposed profile is
\* unset, no presence write has been issued and no resolution is retried.
FailedResolutionUnsetsProfile ==
  [][ \A q \in pending :
        (q.st = "err" /\ ProfileResponse(q))
          => /\ IsNull(currentUser')
             /\ OfKind(pending', "online") = OfKind(pending, "online")
             /\ Cardinality(OfKind(pending', "profile")) < Cardinality(OfKind(pending, "profile")) ]_vars

\* C12 amended: a failed profile resolution leaves the exposed profile as
\* it was (unset when none was exposed), issues no presence write and no
\* new resolution; a resolution is only ever issued on an authentication
\* event, and an online write only by a resolution that succeeded.
FailedResolutionIsInert ==
  [][ /\ \A q \in pending :
           (q.st = "err" /\ ProfileResponse(q))
             => /\ currentUser' = currentUser
                /\ OfKind(pending', "online") = OfKind(pending, "online")
                /\ OfKind(pending', "offline") = OfKind(pending, "offline")
                /\ Cardinality(OfKind(pending', "profile"))
                     = Cardinality(OfKind(pending, "profile")) - 1
                /\ profiles' = profiles
      /\ Cardinality({ q \in OfKind(pending', "profile") : q.st = "issued" })
           > Cardinality({ q \in OfKind(pending, "profile") : q.st = "issued" })
           => last'.op \in AuthEventOps
      /\ Cardinality(OfKind(pending', "online")) > Cardinality(OfKind(pending, "online"))
           => last'.op = "profileResponse" /\ currentUser' = Some(last'.arg) ]_vars

\* C12 witness: the only resolution of a session has just failed: no
\* profile is exposed, nothing is in flight and no presence was written.
ResolutionFailedNothingLeft ==
  /\ last.op = "profileResponse"
  /\ ~IsNull(session)
  /\ IsNull(currentUser)
  /\ pending = {}
  /\ profiles = NewProfiles


\* ======================================================================
\* Properties of the roster
\* ======================================================================

\* Two letters are equal up to case.
SameLetter(a, b) ==
  \/ a = b
  \/ << a, b >> \in { << "a", "A" >>, << "A", "a" >>, << "b", "B" >>, << "B", "b" >> }

\* The display name contains the term as a case-insensitive substring.
ContainsIgnoringCase(name, term) ==
  \E off \in 0..(Len(name) - Len(term)) :
    \A j \in 1..Len(term) : SameLetter(name[off + j], term[j])

\* C13: once the roster has loaded, the profiles it shows are exactly the
\* profiles other than the current user's whose username contains the
\* search term up to case, each once, in ascending username order; the
\* current user's profile is not among them.
RosterIsFilteredOthers ==
  LET shown == FilteredUsers(users, searchTerm) IN
  userFetch.loaded =>
    /\ { shown[i].id : i \in DOMAIN shown }
         = { u \in Users : u # currentUser[1]
                           /\ ContainsIgnoringCase(usernames[u], searchTerm) }
    /\ \A i, j \in DOMAIN shown : i # j => shown[i].id # shown[j].id
    /\ \A i \in DOMAIN shown : shown[i].username = usernames[shown[i].id]
    /\ \A i, j \in DOMAIN shown :
         i < j => ~TextLess(shown[j].username, shown[i].username)
    /\ \A i \in DOMAIN shown : shown[i].id # currentUser[1]

\* C13 witness: the current user's own name matches a mixed-case search
\* term and is left out, one of the two other profiles matches it and the
\* other does not, and a later query is on its way.
RosterFiltersByCase ==
  /\ userFetch.loaded
  /\ searchTerm = << "B", "A" >>
  /\ Len(FilteredUsers(users, searchTerm)) = 1
  /\ ContainsIgnoringCase(usernames[Me], searchTerm)
  /\ ~Includes(usernames[FilteredUsers(users, searchTerm)[1].id], searchTerm)
  /\ userFetch.issued > 0


\* ======================================================================
\* Properties of the conversation list
\* ======================================================================

\* The stored messages the session user sent or received.
MineOf(st) ==
  { st[i] : i \in { k \in DOMAIN st : st[k].sender_id = Me \/ st[k].receiver_id = Me } }

\* The messages of rows exchanged between the session user and u.
Between(rows, u) ==
  { x \in rows : \/ (x.sender_id = Me /\ x.receiver_id = u)
                 \/ (x.sender_id = u /\ x.receiver_id = Me) }

\* The list has one row for each counterpart of rows and no other row;
\* each row carries the newest message of its pair and the number of the
\* pair's messages addressed to the session user that are unread.
ListMatches(list, rows) ==
  /\ { list[i].user : i \in DOMAIN list } = { u \in Users : Between(rows, u) # {} }
  /\ \A i, j \in DOMAIN list : i # j => list[i].user # list[j].user
  /\ \A i \in DOMAIN list :
       LET pair == Between(rows, list[i].user) IN
       /\ ~IsNull(list[i].lastMessage)
       /\ list[i].lastMessage[1] \in pair
       /\ \A x \in pair : x.created_at <= list[i].lastMessage[1].created_at
       /\ list[i].unreadCount
            = Cardinality({ x \in pair : x.receiver_id = Me /\ ~x.read })

\* C14: the messages a refresh is served are the stored messages the
\* session user sent or received, and the list its continuation sets
\* matches them: one row per counterpart, with the pair's newest message
\* and its count of unread messages addressed to the session user.
ListPartitionsByCounterpart ==
  [][ /\ \A data \in refreshes'.served \ refreshes.served :
           { data[i] : i \in DOMAIN data } = MineOf(store)
      /\ \A data \in refreshes.served :
           FetchChatsResolve(data)
             => ListMatches(chats', { data[i] : i \in DOMAIN data }) ]_vars

\* C14 witness: a refresh has just set a list of two rows that matches
\* the table: one row counts an unread message, the other, whose newest
\* message the session user sent, counts none.
TwoCounterpartsListed ==
  /\ last.op = "fetchChatsResolve"
  /\ Len(chats) = 2
  /\ ListMatches(chats, MineOf(store))
  /\ \E i, j \in DOMAIN chats :
       /\ chats[i].unreadCount = 1
       /\ chats[j].unreadCount = 0
       /\ chats[j].lastMessage[1].sender_id = Me


\* The rows are in descending order of their newest message's timestamp,
\* rows without message after every row with one.
NewestFirst(list) ==
  \A i, j \in DOMAIN list :
    i < j =>
      /\ IsNull(list[i].lastMessage) => IsNull(list[j].lastMessage)
      /\ (~IsNull(list[i].lastMessage) /\ ~IsNull(list[j].lastMessage))
           => list[i].lastMessage[1].created_at >= list[j].lastMessage[1].created_at

\* The row of a conversation without message, and a list with such a row
\* put in after its first k rows.
EmptyChat(u) == [ user |-> u, lastMessage |-> Null, unreadCount |-> 0 ]
WithEmptyChat(list, k, u) ==
  SubSeq(list, 1, k) \o << EmptyChat(u) >> \o SubSeq(list, k + 1, Len(list))

\* C15: the conversation list is in descending order of newest-message
\* timestamp; and the sort of fetchChats, given the list with one or two
\* conversations without message put in anywhere, keeps every row, keeps
\* that order and places those conversations last.
ListNewestFirst ==
  /\ NewestFirst(chats)
  /\ \A k \in 0..Len(chats) :
       LET one == WithEmptyChat(chats, k, "u4") IN
       /\ SortChats(one) = Append(chats, EmptyChat("u4"))
       /\ \A n \in 0..Len(one) :
            LET two == WithEmptyChat(one, n, "u5")
                sorted == SortChats(two)
            IN /\ NewestFirst(sorted)
               /\ Len(sorted) = Len(two)
               /\ { sorted[i] : i \in DOMAIN sorted } = { two[i] : i \in DOMAIN two }

\* C15 witness: a refresh has just set a list of two conversations, the
\* one with the newer message first; that message arrived after the list
\* was mounted.
NewerConversationFirst ==
  /\ last.op = "fetchChatsResolve"
  /\ Len(chats) = 2
  /\ chats[1].lastMessage[1].created_at > chats[2].lastMessage[1].created_at
  /\ chats[1].lastMessage[1] = store[Len(store)]
  /\ feed # <<>>


\* ======================================================================
\* Properties of the view across counterparts
\* ======================================================================

\* C16: the resolution of a request issued for a former pair (a history
\* fetch, or the response to a create request addressed to a counterpart
\* no longer selected) changes neither the visible sequence nor the input
\* of the conversation now shown.
FormerPairResolutionIsNoOp ==
  [][ /\ \A q \in stale :
           StaleFetchResolve(q) => (messages' = messages /\ newMessage' = newMessage)
      /\ \A r \in sends :
           (r.req.receiver_id # selectedUser /\ CreateResponse(r))
             => (messages' = messages /\ newMessage' = newMessage) ]_vars


\* C17: when a create request has succeeded and the pending entry is
\* still in the visible sequence, the continuation replaces it in place by
\* the row the server returned: the length is unchanged, the entry at the
\* pending entry's position is the server's row, every other entry is as
\* it was, and no entry carries the temporary identifier.
ConfirmedInPlace ==
  [][ \A r \in sends :
        (r.st = "ok" /\ CreateResponse(r) /\ Count(messages, r.tmp) > 0)
          => /\ Len(messages') = Len(messages)
             /\ Count(messages, r.tmp) = 1
             /\ \A i \in DOMAIN messages :
                  messages'[i] = IF messages[i].id = r.tmp THEN r.data[1]
                                                           ELSE messages[i]
             /\ Count(messages', r.tmp) = 0
             /\ r.data[1].id # r.tmp ]_vars

\* C17 witness: the pending entry has just been confirmed in first
\* position, ahead of a message of the counterpart that arrived after it.
ConfirmedAheadOfPeer ==
  /\ last.op = "createResponse"
  /\ last.alert = "none"
  /\ Len(messages) = 2
  /\ messages[1].sender_id = Me
  /\ messages[1].id \in DOMAIN store
  /\ messages[2].sender_id = Peer


\* C18: the delivery of an INSERT notification whose sender and receiver
\* are not the session user and the selected counterpart, in either
\* direction, leaves the visible sequence unchanged and issues no
\* read-flag request.
ForeignInsertIgnored ==
  [][ (/\ feed # <<>>
       /\ Deliver
       /\ Head(feed).type = "INSERT"
       /\ << Head(feed).row.sender_id, Head(feed).row.receiver_id >>
            \notin { << Me, selectedUser >>, << selectedUser, Me >> })
        => (messages' = messages /\ marks' = marks) ]_vars

\* C18 witness: a message of the third user to the session user has just
\* been delivered while the view shows an entry and the row is not in it.
ThirdUserInsertDelivered ==
  /\ last.op = "deliver"
  /\ last.arg[1] \in DOMAIN store
  /\ store[last.arg[1]].sender_id = Other
  /\ store[last.arg[1]].receiver_id = Me
  /\ messages # <<>>
  /\ Count(messages, last.arg[1]) = 0
  /\ marks = {}

UploadsUnderCeiling ==
  \A u \in uploads : u.file.size < 5 * 1024 * 1024


\* ======================================================================
\* Properties under concurrency
\* ======================================================================

\* No change notification is waiting for the list and none of its refresh
\* queries is in flight.
ListSettled ==
  /\ refreshes.events = 0
  /\ refreshes.issued = 0
  /\ refreshes.served = {}

\* C21: once the last change notification has been handled and every
\* refresh query of the conversation list has resolved, the list shown is
\* the one computed from the store as it is.
SettledListIsCurrent ==
  ListSettled => chats = ChatListOf(UserMessages(store))


\* The history fetch has resolved and every create response, read-flag
\* update and notification has been processed.
ViewSettled ==
  /\ fetch.st = "done"
  /\ feed = <<>>
  /\ marks = {}
  /\ \A r \in sends : r.st \in { "done", "failed" }

\* C22: once the view has settled, every stored message of the open pair
\* whose notification the view has processed is in the visible sequence.
NoMessageLost ==
  ViewSettled =>
    \A id \in delivered :
      (id \in DOMAIN store /\ IsPair(store[id])) => Count(messages, id) >= 1


\* C23: every entry of the visible sequence is between the current user and
\* the counterpart selected now, in one direction or the other.
VisibleOfSelectedPair ==
  \A i \in DOMAIN messages :
    \/ messages[i].sender_id = Me /\ messages[i].receiver_id = selectedUser
    \/ messages[i].sender_id = selectedUser /\ messages[i].receiver_id = Me


\* C24: a profile exposed while the session is authenticated is the
\* session user's profile.
ExposedProfileIsSessionUser ==
  (~IsNull(session) /\ ~IsNull(currentUser)) => currentUser[1] = session[1]


\* A conversation view is rendered: session is set and a counterpart is
\* selected.
ViewRendered == ~IsNull(session) /\ selectedUser # NoOne

\* C25: whenever a conversation view is rendered, a profile is exposed.
ViewHasProfile ==
  ViewRendered => ~IsNull(currentUser)

\* C27: the counterpart of a rendered conversation view is not the
\* session user.
CounterpartIsNotSelf ==
  ViewRendered => selectedUser # session[1]


\* Nobody is signed in and no request is in flight.
AllResolved ==
  /\ IsNull(session)
  /\ IsNull(authSession)
  /\ pending = {}

\* The offline write of the latest sign-out took effect on u's profile.
OfflineWriteLanded(u) ==
  /\ profiles[u].last_seen > 0
  /\ profiles[u].last_seen = tick - 1

\* C26: once a sign-out whose offline write took effect has completed and
\* every request has resolved, the signed-out user's presence is offline.
OfflineAfterSignOut ==
  \A u \in AuthUsers :
    (AllResolved /\ OfflineWriteLanded(u)) => profiles[u].status = "offline"


====
